---------------------------- MODULE Spec2Model ----------------------------
(***************************************************************************)
(* Mandelbrot zoom (src/src/main.rs): the App state, the per-frame update  *)
(* (row-parallel escape-time grid, then the viewport/colour-scalar         *)
(* recurrence) and the pause key.                                          *)
(*                                                                         *)
(* Numbers.  The f64 and f32 fields are modelled by correctly rounded      *)
(* binary floating point of the same precision (53 and 24 significant      *)
(* bits, round to nearest, ties to even) on multi-limb naturals; the       *)
(* exponent is unbounded (no overflow or underflow happens within          *)
(* MaxFrames frames) and every non-finite result is the one value NonFin.  *)
(* The orbit z <- z*z + c itself is evaluated on the fixed-point lattice   *)
(* 2^-FRAC, to which the f64 point c is rounded.  A second number kind,    *)
(* exact rationals, runs the same operations in exact arithmetic from      *)
(* SpecExact's initial states.                                             *)
(*                                                                         *)
(* The grid.  vals is DOMAIN x RANGE (399 x 199) cells; cells are          *)
(* independent, and the model keeps the cells at SampleRows x SampleCols.  *)
(***************************************************************************)
EXTENDS Integers, Sequences, FiniteSets

(***************************************************************************)
(* Natural numbers of any size: little-endian sequences of limbs in base   *)
(* 2^LIMB, without high zero limbs (zero is << >>).                        *)
(***************************************************************************)
LIMB == 14

Pow2(k) == 2 ^ k

BASE == Pow2(LIMB)

Max(a, b) == IF a >= b THEN a ELSE b

Min(a, b) == IF a <= b THEN a ELSE b

Abs(a) == IF a >= 0 THEN a ELSE -a

\* Number of significant bits of an integer 0 <= x < 2^30.
IntBitLen(x) ==
  LET F[k \in Nat] == IF x < 2 ^ k THEN k ELSE F[k + 1]
  IN F[0]

\* Drop the high zero limbs.
BTrim(a) ==
  LET F[i \in Nat] ==
        IF i = 0 THEN << >>
        ELSE IF a[i] # 0 THEN (IF i = Len(a) THEN a ELSE SubSeq(a, 1, i))
        ELSE F[i - 1]
  IN F[Len(a)]

\* Propagate carries (and borrows) through a sequence of integers whose
\* weighted sum is a natural number.
BCarry(xs) ==
  LET F[s \in Nat \X Int] ==
        IF s[1] > Len(xs)
        THEN (IF s[2] = 0 THEN << >> ELSE <<s[2] % BASE>> \o F[<<s[1], s[2] \div BASE>>])
        ELSE <<(xs[s[1]] + s[2]) % BASE>> \o F[<<s[1] + 1, (xs[s[1]] + s[2]) \div BASE>>]
  IN BTrim(F[<<1, 0>>])

BLimb(a, i) == IF i >= 1 /\ i <= Len(a) THEN a[i] ELSE 0

BFromInt(n) == BCarry(<<n>>)

\* The value of a small natural (below 2^31).
BToInt(a) ==
  LET F[i \in Nat] == IF i > Len(a) THEN 0 ELSE a[i] + BASE * F[i + 1]
  IN F[1]

\* a + sg * b for sg in {-1, 1}, where a >= b if sg = -1.
BAddSub(a, sg, b) ==
  BCarry([i \in 1..Max(Len(a), Len(b)) |-> BLimb(a, i) + sg * BLimb(b, i)])

BAdd(a, b) == BAddSub(a, 1, b)

\* a - b for a >= b.
BSub(a, b) == BAddSub(a, -1, b)

\* -1, 0, 1 as a < b, a = b, a > b.
BCmp(a, b) ==
  LET F[i \in Nat] ==
        IF i = 0 THEN 0
        ELSE IF a[i] = b[i] THEN F[i - 1]
        ELSE IF a[i] < b[i] THEN -1 ELSE 1
  IN IF Len(a) # Len(b) THEN (IF Len(a) < Len(b) THEN -1 ELSE 1) ELSE F[Len(a)]

BBitLen(a) == IF Len(a) = 0 THEN 0 ELSE LIMB * (Len(a) - 1) + IntBitLen(a[Len(a)])

\* a * 2^k.
BShl(a, k) ==
  IF Len(a) = 0 THEN << >>
  ELSE BCarry([i \in 1..(Len(a) + (k \div LIMB)) |->
                 IF i <= k \div LIMB THEN 0 ELSE a[i - (k \div LIMB)] * 2 ^ (k % LIMB)])

\* floor(a / 2^k).
BShr(a, k) ==
  IF k \div LIMB >= Len(a) THEN << >>
  ELSE BTrim([i \in 1..(Len(a) - (k \div LIMB)) |->
               (a[i + (k \div LIMB)] \div 2 ^ (k % LIMB))
               + (BLimb(a, i + (k \div LIMB) + 1) % 2 ^ (k % LIMB)) * 2 ^ (LIMB - (k % LIMB))])

\* Bit i (0 is the lowest) of a.
BBit(a, i) == (BLimb(a, (i \div LIMB) + 1) \div 2 ^ (i % LIMB)) % 2

\* Whether bits 0..k-1 of a are all zero.
BLowZero(a, k) ==
  /\ \A i \in 1..Min(k \div LIMB, Len(a)) : a[i] = 0
  /\ BLimb(a, (k \div LIMB) + 1) % 2 ^ (k % LIMB) = 0

\* a * b, one row of limb products at a time.
BMul(a, b) ==
  LET F[i \in Nat] ==
        IF i > Len(a) THEN << >>
        ELSE BAdd(BCarry([j \in 1..(Len(b) + i - 1) |->
                            IF j < i THEN 0 ELSE a[i] * b[j - i + 1]]),
                  F[i + 1])
  IN IF Len(a) = 0 \/ Len(b) = 0 THEN << >> ELSE F[1]

\* <<floor(nn / dd), (nn mod dd) / 2^sh>> by long division in base 2^LIMB, for
\* a divisor dd whose top limb is at least BASE / 2: each quotient limb is
\* estimated from the top limbs of the remainder and then corrected downwards.
BLongDiv(nn, dd, sh) ==
  LET Fix[t \in Nat \X Seq(Nat)] ==
        IF BCmp(BMul(<<t[1]>>, dd), t[2]) > 0 THEN Fix[<<t[1] - 1, t[2]>>] ELSE t[1]
      Digit[r \in Seq(Nat)] ==
        IF BCmp(r, dd) < 0 THEN 0
        ELSE Fix[<<Min(BASE - 1, (BLimb(r, Len(dd) + 1) * BASE + BLimb(r, Len(dd)))
                                    \div dd[Len(dd)]), r>>]
      Step[t \in Nat \X Seq(Nat) \X Seq(Nat) \X Nat] ==
        \* <<limbs left, remainder with the next limb brought down, quotient, digit>>
        <<t[1] - 1, IF t[4] = 0 THEN t[2] ELSE BSub(t[2], BMul(<<t[4]>>, dd)),
          <<t[4]>> \o t[3]>>
      WithDigit[t \in Nat \X Seq(Nat) \X Seq(Nat)] ==
        Step[<<t[1], t[2], t[3], Digit[t[2]]>>]
      F[s \in Nat \X Seq(Nat) \X Seq(Nat)] ==
        IF s[1] = 0 THEN <<BTrim(s[3]), BShr(s[2], sh)>>
        ELSE F[WithDigit[<<s[1], BTrim(<<nn[s[1]]>> \o s[2]), s[3]>>]]
  IN F[<<Len(nn), << >>, << >>>>]

\* <<floor(n / d), n mod d>> for d > 0: the divisor is scaled so that its top
\* limb is at least BASE / 2.
BDivMod(n, d) ==
  BLongDiv(BShl(n, LIMB - IntBitLen(d[Len(d)])), BShl(d, LIMB - IntBitLen(d[Len(d)])),
           LIMB - IntBitLen(d[Len(d)]))


(***************************************************************************)
(* Binary floating point: [p, s, m, e] is s * m * 2^e with s in {-1, 1}    *)
(* and m of exactly p bits; s = 0 is zero and s = 2 is a non-finite value  *)
(* (an infinity or a NaN).  Every operation rounds the exact result to     *)
(* nearest, ties to even, as f64 (p = 53) and f32 (p = 24) arithmetic does.*)
(***************************************************************************)
F64 == 53
F32 == 24

FZero(p) == [p |-> p, s |-> 0, m |-> << >>, e |-> 0]

NonFin(p) == [p |-> p, s |-> 2, m |-> << >>, e |-> 0]

\* s * n * 2^e rounded to p bits: n is cut to its p high bits q, and q is
\* raised by one when the bits cut off are more than half a unit, or half a
\* unit with q odd.
FRound(p, s, n, e) ==
  LET Carry(q, k) ==
        IF BBitLen(q) > p THEN [p |-> p, s |-> s, m |-> BShr(q, 1), e |-> e + k + 1]
        ELSE [p |-> p, s |-> s, m |-> q, e |-> e + k]
      Up(q, k) ==
        Carry(IF BBit(n, k - 1) = 1 /\ (~BLowZero(n, k - 1) \/ BBit(q, 0) = 1)
              THEN BAdd(q, <<1>>) ELSE q, k)
      Cut(len) ==
        IF len = 0 THEN FZero(p)
        ELSE IF len <= p
        THEN [p |-> p, s |-> s, m |-> BShl(n, p - len), e |-> e - (p - len)]
        ELSE Up(BShr(n, len - p), len - p)
  IN Cut(BBitLen(n))

FNeg(x) == IF x.s \in {-1, 1} THEN [x EXCEPT !.s = -x.s] ELSE x

\* hi + lo for finite non-zero hi and lo with hi.e >= lo.e.  A lo below a
\* quarter unit of hi only breaks ties: it enters as one sticky bit.
FAddOrdered(hi, lo) ==
  LET far == hi.e - lo.e > hi.p + 2
      Signed(a, b, e, c) ==
        IF hi.s # lo.s /\ c = 0 THEN FZero(hi.p)
        ELSE FRound(hi.p, IF hi.s = lo.s \/ c > 0 THEN hi.s ELSE lo.s,
                    IF hi.s = lo.s THEN BAddSub(a, 1, b)
                    ELSE IF c > 0 THEN BAddSub(a, -1, b) ELSE BAddSub(b, -1, a), e)
      Aligned(a, b, e) == Signed(a, b, e, BCmp(a, b))
  IN Aligned(BShl(hi.m, IF far THEN 3 ELSE hi.e - lo.e),
             IF far THEN <<1>> ELSE lo.m,
             IF far THEN hi.e - 3 ELSE lo.e)

FAdd(x, y) ==
  IF x.s = 2 \/ y.s = 2 THEN NonFin(x.p)
  ELSE IF x.s = 0 THEN y
  ELSE IF y.s = 0 THEN x
  ELSE FAddOrdered(IF x.e >= y.e THEN x ELSE y, IF x.e >= y.e THEN y ELSE x)

FSub(x, y) == FAdd(x, FNeg(y))

FMul(x, y) ==
  IF x.s = 2 \/ y.s = 2 THEN NonFin(x.p)
  ELSE IF x.s = 0 \/ y.s = 0 THEN FZero(x.p)
  ELSE FRound(x.p, x.s * y.s, BMul(x.m, y.m), x.e + y.e)

\* s * (n / d) * 2^e rounded to p bits, for naturals n > 0 and d > 0: the
\* quotient to p + 2 bits or more, and one more bit for a remainder.
FRatio(p, s, n, d, e) ==
  LET Sticky(qr, k) ==
        FRound(p, s, BAdd(BShl(qr[1], 1), IF Len(qr[2]) = 0 THEN << >> ELSE <<1>>),
               e - k - 1)
      Scaled(k) == Sticky(BDivMod(BShl(n, k), d), k)
  IN Scaled(Max(0, p + 2 + BBitLen(d) - BBitLen(n)))

\* x / y; a division by zero gives a non-finite value.
FDiv(x, y) ==
  IF x.s = 2 \/ y.s = 2 \/ y.s = 0 THEN NonFin(x.p)
  ELSE IF x.s = 0 THEN FZero(x.p)
  ELSE FRatio(x.p, x.s * y.s, x.m, y.m, x.e - y.e)

\* The natural number written in decimal by the groups gs of four digits,
\* and 10000^k.
BDecimal(gs) ==
  LET F[s \in Nat \X Seq(Nat)] ==
        IF s[1] > Len(gs) THEN s[2]
        ELSE F[<<s[1] + 1, BAdd(BMul(s[2], <<10000>>), BFromInt(gs[s[1]]))>>]
  IN F[<<1, << >>>>]

BPow10000(k) ==
  LET F[s \in Nat \X Seq(Nat)] ==
        IF s[1] = 0 THEN s[2] ELSE F[<<s[1] - 1, BMul(s[2], <<10000>>)>>]
  IN F[<<k, <<1>>>>]

\* The f64 of the literal s * 0.gs, its digits in groups of four: the f64
\* nearest to the exact value.
F64Literal(s, gs) ==
  LET Of(n, d) ==
        IF Len(n) = 0 THEN FZero(F64) ELSE IF Len(d) = 0 THEN NonFin(F64)
        ELSE FRatio(F64, s, n, d, 0)
  IN Of(BDecimal(gs), BPow10000(Len(gs)))

\* x > y; false when either is non-finite.
FGt(x, y) ==
  LET mag == IF x.e # y.e THEN (IF x.e > y.e THEN 1 ELSE -1) ELSE BCmp(x.m, y.m)
  IN IF x.s = 2 \/ y.s = 2 THEN FALSE
     ELSE IF x.s # y.s THEN x.s > y.s
     ELSE IF x.s = 0 THEN FALSE
     ELSE IF x.s = 1 THEN mag > 0 ELSE mag < 0

\* The integer n as a float (n as f64).
FInt(p, n) == IF n = 0 THEN FZero(p) ELSE FRound(p, IF n > 0 THEN 1 ELSE -1, BFromInt(Abs(n)), 0)

\* x as i16 for |x| < 2^15: the integer part, rounding toward zero.
FTrunc(x) ==
  IF x.s \in {-1, 1}
  THEN x.s * BToInt(IF x.e >= 0 THEN BShl(x.m, x.e) ELSE BShr(x.m, -x.e))
  ELSE 0

\* The nearest integer to x * 2^f, for |x| < 2^(30 - f): x on the lattice 2^-f.
FToFixed(x, f) ==
  LET k == -(x.e + f)
  IN IF x.s \notin {-1, 1} THEN 0
     ELSE IF k <= 0 THEN x.s * BToInt(BShl(x.m, -k))
     ELSE x.s * BToInt(BShr(BAdd(x.m, BShl(<<1>>, k - 1)), k))


(***************************************************************************)
(* Exact rationals [n, d] in lowest terms with d > 0; d = 0 marks the      *)
(* result of a division by zero.                                           *)
(***************************************************************************)
Gcd(a, b) ==
  LET G[s \in Nat \X Nat] == IF s[2] = 0 THEN s[1] ELSE G[<<s[2], s[1] % s[2]>>]
  IN G[<<a, b>>]

QBad == [n |-> 1, d |-> 0]

QNorm(n, d) ==
  LET g == Gcd(Abs(n), Abs(d))
  IN IF d = 0 THEN QBad
     ELSE IF d > 0 THEN [n |-> n \div g, d |-> d \div g]
     ELSE [n |-> (-n) \div g, d |-> (-d) \div g]

QAdd(x, y) ==
  LET g == Gcd(x.d, y.d)
  IN IF x.d = 0 \/ y.d = 0 THEN QBad
     ELSE QNorm(x.n * (y.d \div g) + y.n * (x.d \div g), x.d * (y.d \div g))

QSub(x, y) == QAdd(x, [y EXCEPT !.n = -y.n])

QMul(x, y) ==
  LET g1 == Gcd(Abs(x.n), y.d)
      g2 == Gcd(Abs(y.n), x.d)
  IN IF x.d = 0 \/ y.d = 0 THEN QBad
     ELSE [n |-> (x.n \div g1) * (y.n \div g2), d |-> (x.d \div g2) * (y.d \div g1)]

QDiv(x, y) ==
  IF y.d = 0 \/ y.n = 0 THEN QBad
  ELSE QMul(x, IF y.n > 0 THEN [n |-> y.d, d |-> y.n] ELSE [n |-> -y.d, d |-> -y.n])

QGt(x, y) == x.d # 0 /\ y.d # 0 /\ QSub(x, y).n > 0

\* The integer part, rounding toward zero.
QTrunc(x) == IF x.d = 0 THEN 0 ELSE IF x.n >= 0 THEN x.n \div x.d ELSE -((-x.n) \div x.d)

\* The nearest integer to x * 2^f (binary long division of the fraction).
QToFixed(x, f) ==
  LET a == Abs(x.n)
      B[s \in Nat \X Nat \X Nat] ==
        IF s[3] = 0 THEN s[2]
        ELSE IF 2 * s[1] >= x.d THEN B[<<2 * s[1] - x.d, 2 * s[2] + 1, s[3] - 1>>]
        ELSE B[<<2 * s[1], 2 * s[2], s[3] - 1>>]
      mag == (a \div x.d) * Pow2(f) + ((B[<<a % x.d, 0, f + 1>>] + 1) \div 2)
  IN IF x.d = 0 THEN 0 ELSE IF x.n >= 0 THEN mag ELSE -mag

(***************************************************************************)
(* The arithmetic of the program on either kind of number.                 *)
(***************************************************************************)
IsQ(x) == "d" \in DOMAIN x

Add(x, y) == IF IsQ(x) THEN QAdd(x, y) ELSE FAdd(x, y)

Sub(x, y) == IF IsQ(x) THEN QSub(x, y) ELSE FSub(x, y)

Mul(x, y) == IF IsQ(x) THEN QMul(x, y) ELSE FMul(x, y)

Div(x, y) == IF IsQ(x) THEN QDiv(x, y) ELSE FDiv(x, y)

Gt(x, y) == IF IsQ(x) THEN QGt(x, y) ELSE FGt(x, y)

Lt(x, y) == Gt(y, x)

Le(x, y) == Lt(x, y) \/ x = y

IsFinite(x) == IF IsQ(x) THEN x.d # 0 ELSE x.s # 2

\* The integer n, and the decimal literal n/d, in the kind and precision of x.
IntLike(x, n) == IF IsQ(x) THEN [n |-> n, d |-> 1] ELSE FInt(x.p, n)

\* The decimal literals n/d of the program, each with the precision it is
\* used in, and the float nearest to it.
Literals ==
  {<<F64, 10, 100>>, <<F64, 95, 100>>, <<F32, 1, 100>>, <<F32, 23, 100>>,
   <<F32, 1, 1000>>, <<F32, 1, 10000>>, <<F32, 5, 10000>>, <<F32, 1, 100000>>,
   <<F32, 5, 100000>>, <<F32, 1, 1000000>>, <<F32, 5, 1000000>>}

Nearest ==
  {[p |-> q[1], n |-> q[2], d |-> q[3], v |-> FDiv(FInt(q[1], q[2]), FInt(q[1], q[3]))] :
     q \in Literals}

Lit(x, n, d) ==
  IF IsQ(x) THEN QNorm(n, d)
  ELSE (CHOOSE t \in Nearest : t.p = x.p /\ t.n = n /\ t.d = d).v


(***************************************************************************)
(* The program's constants (main.rs 41-69).                                *)
(***************************************************************************)
\* const GRAPH_SCALE: f64 = 100.0
GRAPH_SCALE == 100

\* const MAGIC_RE: f64 = 0.3602404434376143632361252444495453084826
MAGIC_RE == F64Literal(1, <<3602, 4044, 3437, 6143, 6323, 6125, 2444, 4954, 5308, 4826>>)

\* const MAGIC_IM: f64 = -0.641313061064803174860375015179302066579
MAGIC_IM == F64Literal(-1, <<6413, 1306, 1064, 8031, 7486, 375, 151, 7930, 2066, 5790>>)

RE1 == FSub(MAGIC_RE, FInt(F64, 2))

RE2 == FAdd(MAGIC_RE, FInt(F64, 2))

DRE == FSub(RE2, RE1)

IM1 == FSub(MAGIC_IM, FInt(F64, 1))

IM2 == FAdd(MAGIC_IM, FInt(F64, 1))

DIM == FSub(IM2, IM1)

RAT == FDiv(DIM, DRE)

\* `as i16` of a value within the i16 range: the fraction is dropped.
AsI16(x) == IF IsQ(x) THEN QTrunc(x) ELSE FTrunc(x)

RE_MIN == AsI16(FMul(RE1, FInt(F64, GRAPH_SCALE)))

RE_MAX == AsI16(FMul(RE2, FInt(F64, GRAPH_SCALE)))

DOMAIN_ == RE_MAX - RE_MIN

IM_MIN == AsI16(FMul(IM1, FInt(F64, GRAPH_SCALE)))

IM_MAX == AsI16(FMul(IM2, FInt(F64, GRAPH_SCALE)))

RANGE == IM_MAX - IM_MIN

\* RAT in exact arithmetic (the anchor's decimals cut to seven places: only
\* the differences (x + r) - (x - r) enter).
RAT_Q ==
  LET re == QNorm(3602404, 10000000)
      im == QNorm(-6413130, 10000000)
      one == [n |-> 1, d |-> 1]
      two == [n |-> 2, d |-> 1]
  IN QDiv(QSub(QAdd(im, one), QSub(im, one)), QSub(QAdd(re, two), QSub(re, two)))

RatLike(x) == IF IsQ(x) THEN RAT_Q ELSE RAT

(***************************************************************************)
(* Bounds of the model.                                                    *)
(***************************************************************************)
\* Unpaused frames explored from Init, and from InitExact.
MaxFrames == 720
MaxExactFrames == 4
\* The orbit's lattice is 2^-FRAC.
FRAC == 10
\* The cap of the escape loop.  The source sets ITERATIONS to 1200; the model
\* runs the same loop to a smaller cap.
ITERATIONS == 40

ONE == Pow2(FRAC)

\* The cells of the grid the model keeps: the first and last row, and the
\* first and last column, in the order the loops visit them.
SampleRows == <<0, RANGE - 1>>

SampleCols == <<0, DOMAIN_ - 1>>

Rows == {0, RANGE - 1}

Cols == {0, DOMAIN_ - 1}

\* [[0; DOMAIN]; RANGE]
ZeroGrid == [b \in Rows |-> [a \in Cols |-> 0]]

(***************************************************************************)
(* num::complex on the lattice: a complex number is <<re, im>> in units of *)
(* 2^-FRAC.                                                                *)
(***************************************************************************)
ToFixed(x) == IF IsQ(x) THEN QToFixed(x, FRAC) ELSE FToFixed(x, FRAC)

XMul(a, b) == (a * b + (ONE \div 2)) \div ONE

CMul(z, w) == <<XMul(z[1], w[1]) - XMul(z[2], w[2]), XMul(z[1], w[2]) + XMul(z[2], w[1])>>

CAdd(z, w) == <<z[1] + w[1], z[2] + w[2]>>

NormSqr(z) == XMul(z[1], z[1]) + XMul(z[2], z[2])

\* let bound = cmp::new(2.0, 0.0)
Bound == <<2 * ONE, 0>>

\* c = (a / re_scale + re_min, b / im_scale + im_min)
PointOf(v, a, b) ==
  <<ToFixed(Add(Div(IntLike(v.re_scale, a), v.re_scale), v.re_min)),
    ToFixed(Add(Div(IntLike(v.im_scale, b), v.im_scale), v.im_min))>>

\* A faulty loop body: the escape test reads z before it is replaced, so an
\* escape is seen one turn late.
LoopBodyTestFirst(c, s) ==
  LET z == CAdd(CMul(<<s[1], s[2]>>, <<s[1], s[2]>>), c)
  IN <<z[1], z[2], s[3] + 1,
       IF NormSqr(<<s[1], s[2]>>) >= NormSqr(Bound) THEN TRUE ELSE s[4]>>

\* One turn of the while loop on <<re(z), im(z), count, done>>.
LoopBody(c, s) ==
  LET z == CAdd(CMul(<<s[1], s[2]>>, <<s[1], s[2]>>), c)
  IN <<z[1], z[2], s[3] + 1, IF NormSqr(z) >= NormSqr(Bound) THEN TRUE ELSE s[4]>>

\* while !done && count < ITERATIONS
LoopRuns(s) == ~s[4] /\ s[3] < ITERATIONS

\* The while loop from state s, to its end.
RECURSIVE While(_, _)
While(c, s) == IF LoopRuns(s) THEN While(c, LoopBody(c, s)) ELSE s


(***************************************************************************)
(* The escape-time grid.  A viewport v is the record of the six fields the *)
(* pixel map reads; a worker carries the loop's locals count and done.     *)
(***************************************************************************)
\* A faulty cell step: count and done are not reset after the cell.
ParCellLeaky(v, im, a, w) ==
  LET s == While(PointOf(v, a, im), <<0, 0, w.count, w.done>>)
  IN [b |-> [w.b EXCEPT ![a] = @ + s[3]], count |-> s[3], done |-> s[4]]

\* One turn of `for a in 0..DOMAIN` in the row worker of row im, on the row
\* b: z = 0, the while loop, b[a] += count, then done = false; count = 0.
ParCell(v, im, a, w) ==
  LET s == While(PointOf(v, a, im), <<0, 0, w.count, w.done>>)
  IN [b |-> [w.b EXCEPT ![a] = @ + s[3]], count |-> 0, done |-> FALSE]

\* for a in 0..DOMAIN, over the columns as the model keeps, from the i-th on.
RECURSIVE ParCells(_, _, _, _, _)
ParCells(v, im, as, i, w) ==
  IF i > Len(as) THEN w
  ELSE ParCells(v, im, as, i + 1, ParCell(v, im, as[i], w))

\* The closure of for_each on (im, b), from done = false and count = 0.
ParRow(v, im, b) ==
  ParCells(v, im, SampleCols, 1, [b |-> b, count |-> 0, done |-> FALSE]).b

\* One turn of the inner loop of update_sequential: self.vals[b][a] = count.
SeqCell(v, a, b, w) ==
  LET s == While(PointOf(v, a, b), <<0, 0, w.count, w.done>>)
  IN [vals |-> [w.vals EXCEPT ![b][a] = s[3]], count |-> 0, done |-> FALSE]

\* for b in 0..RANGE, over the rows bs the model keeps, from the j-th on.
RECURSIVE SeqInner(_, _, _, _, _)
SeqInner(v, a, bs, j, w) ==
  IF j > Len(bs) THEN w
  ELSE SeqInner(v, a, bs, j + 1, SeqCell(v, a, bs[j], w))

\* for a in 0..DOMAIN, over the columns as the model keeps, from the i-th on.
RECURSIVE SeqOuter(_, _, _, _, _)
SeqOuter(v, as, bs, i, w) ==
  IF i > Len(as) THEN w
  ELSE SeqOuter(v, as, bs, i + 1, SeqInner(v, as[i], bs, 1, w))

\* The grid update_sequential leaves in self.vals.
SeqGrid(v, old) ==
  SeqOuter(v, SampleCols, SampleRows, 1, [vals |-> old, count |-> 0, done |-> FALSE]).vals

(***************************************************************************)
(* The viewport and colour-scalar recurrence.                              *)
(***************************************************************************)
\* let im_zoom = re_zoom * RAT
ImZoom(re_zoom) == Mul(re_zoom, RatLike(re_zoom))

\* A faulty correction: the window is taken to shrink by zoom, not 2 * zoom.
AxisScalarOneSided(lo, hi, z) == Div(Sub(hi, lo), Sub(Sub(hi, lo), z))

\* (max - min) / (max - min - (2.0 * zoom))
AxisScalar(lo, hi, z) ==
  Div(Sub(hi, lo), Sub(Sub(hi, lo), Mul(IntLike(z, 2), z)))

\* A faulty zoom step: the increment does not decay.
NextZoomUndamped(z) == z

\* self.zoom *= 0.95
NextZoom(z) == Mul(z, Lit(z, 95, 100))

\* The five ifs, in order: the last one that holds decides.
Ladder(sc, st) ==
  LET s1 == IF Gt(sc, Lit(sc, 5, 1000000)) THEN Lit(sc, 1, 1000000) ELSE st
      s2 == IF Gt(sc, Lit(sc, 5, 100000)) THEN Lit(sc, 1, 100000) ELSE s1
      s3 == IF Gt(sc, Lit(sc, 5, 10000)) THEN Lit(sc, 1, 10000) ELSE s2
      s4 == IF Gt(sc, Lit(sc, 1, 100)) THEN Lit(sc, 1, 1000) ELSE s3
      s5 == IF Gt(sc, Lit(sc, 23, 100)) THEN Lit(sc, 1, 100) ELSE s4
  IN s5

\* A faulty scalar step: the step is added.
NextScalarUp(sc, st) == Add(sc, st)

\* self.scalar -= self.step_factor
NextScalar(sc, st) == Sub(sc, st)


(***************************************************************************)
(* The application state (struct App), the frame buffer `values` of        *)
(* update_parallel with the set of row workers that have finished, and the *)
(* number of frames advanced so far.                                       *)
(***************************************************************************)
VARIABLES vals, re_min, re_max, im_min, im_max, re_scale, im_scale, zoom,
          scalar, step_factor, paused, values, joined, pc, frames

viewport == <<re_min, re_max, im_min, im_max, re_scale, im_scale>>

vars == <<vals, re_min, re_max, im_min, im_max, re_scale, im_scale, zoom,
          scalar, step_factor, paused, values, joined, pc, frames>>

\* What the pixel map reads of self.
View ==
  [re_min |-> re_min, re_max |-> re_max, im_min |-> im_min, im_max |-> im_max,
   re_scale |-> re_scale, im_scale |-> im_scale]

\* Outside the update there is no buffer `values` (it is a local of the
\* update): the model keeps a zeroed grid of the shape of g in its place.
NoBuffer(g) == [b \in DOMAIN g |-> [a \in DOMAIN g[b] |-> 0]]

\* main(): the App literal, with the f64/f32 constants of the program.
Init ==
  /\ vals = ZeroGrid
  /\ re_min = RE1
  /\ re_max = RE2
  /\ im_min = IM1
  /\ im_max = IM2
  /\ re_scale = FInt(F64, GRAPH_SCALE)
  /\ im_scale = FInt(F64, GRAPH_SCALE)
  /\ zoom = Lit(RE1, 10, 100)
  /\ scalar = FInt(F32, 2)
  /\ step_factor = Lit(FInt(F32, 2), 1, 100)
  /\ paused = FALSE
  /\ values = NoBuffer(vals)
  /\ joined = {}
  /\ pc = "idle"
  /\ frames = 0

\* The anchors (MAGIC_RE, MAGIC_IM) of the exact-arithmetic runs.
ExactRe == {0, 1, 2, 4}

ExactIm == {0, 1, 3}

\* main() for an anchor of ExactRe x ExactIm, every number a rational:
\* RE1 = MAGIC_RE - 2.0, RE2 = MAGIC_RE + 2.0, IM1 = MAGIC_IM - 1.0,
\* IM2 = MAGIC_IM + 1.0.
InitExact ==
  \E mre \in ExactRe, mim \in ExactIm :
    /\ vals = ZeroGrid
    /\ re_min = QNorm(mre - 2, 1)
    /\ re_max = QNorm(mre + 2, 1)
    /\ im_min = QNorm(mim - 1, 1)
    /\ im_max = QNorm(mim + 1, 1)
    /\ re_scale = QNorm(GRAPH_SCALE, 1)
    /\ im_scale = QNorm(GRAPH_SCALE, 1)
    /\ zoom = QNorm(10, 100)
    /\ scalar = QNorm(2, 1)
    /\ step_factor = QNorm(1, 100)
    /\ paused = FALSE
    /\ values = NoBuffer(vals)
    /\ joined = {}
    /\ pc = "idle"
    /\ frames = 0

FrameCap == IF IsQ(zoom) THEN MaxExactFrames ELSE MaxFrames

\* event(): Key::Space.
KeySpace ==
  /\ pc = "idle"
  /\ paused' = ~paused
  /\ UNCHANGED <<vals, re_min, re_max, im_min, im_max, re_scale, im_scale,
                 zoom, scalar, step_factor, values, joined, pc, frames>>

\* update_parallel() while paused: the body is skipped.
UpdatePaused ==
  /\ pc = "idle"
  /\ paused
  /\ UNCHANGED vars

\* A faulty start of the frame: the buffer is not zeroed, it is the last grid.
UpdateBeginStale ==
  /\ pc = "idle"
  /\ ~paused
  /\ frames < FrameCap
  /\ values' = vals
  /\ joined' = {}
  /\ pc' = "rows"
  /\ UNCHANGED <<vals, re_min, re_max, im_min, im_max, re_scale, im_scale,
                 zoom, scalar, step_factor, paused, frames>>

\* A faulty start of the frame: paused is not tested.
UpdateBeginAlways ==
  /\ pc = "idle"
  /\ frames < FrameCap
  /\ values' = ZeroGrid
  /\ joined' = {}
  /\ pc' = "rows"
  /\ UNCHANGED <<vals, re_min, re_max, im_min, im_max, re_scale, im_scale,
                 zoom, scalar, step_factor, paused, frames>>

\* update_parallel() while playing, up to the start of the row workers.
UpdateBegin ==
  /\ pc = "idle"
  /\ ~paused
  /\ frames < FrameCap
  /\ values' = ZeroGrid
  /\ joined' = {}
  /\ pc' = "rows"
  /\ UNCHANGED <<vals, re_min, re_max, im_min, im_max, re_scale, im_scale,
                 zoom, scalar, step_factor, paused, frames>>

\* The row worker of row im (values.par_iter_mut().enumerate()) runs to its end.
RowWorker(im) ==
  /\ pc = "rows"
  /\ im \notin joined
  /\ values' = [values EXCEPT ![im] = ParRow(View, im, values[im])]
  /\ joined' = joined \cup {im}
  /\ UNCHANGED <<vals, re_min, re_max, im_min, im_max, re_scale, im_scale,
                 zoom, scalar, step_factor, paused, pc, frames>>

\* The viewport moved in by re_zoom and im_zoom, the scales corrected by
\* the scalars taken from the window as it was.
Rescale(re_zoom, im_zoom) ==
  /\ re_min' = Add(re_min, re_zoom)
  /\ re_max' = Sub(re_max, re_zoom)
  /\ im_min' = Add(im_min, im_zoom)
  /\ im_max' = Sub(im_max, im_zoom)
  /\ re_scale' = Mul(re_scale, AxisScalar(re_min, re_max, re_zoom))
  /\ im_scale' = Mul(im_scale, AxisScalar(im_min, im_max, im_zoom))

\* The recurrence of the viewport, the zoom and the colour scalar.
Advance ==
  /\ Rescale(zoom, ImZoom(zoom))
  /\ zoom' = NextZoom(zoom)
  /\ step_factor' = Ladder(scalar, step_factor)
  /\ scalar' = NextScalar(scalar, step_factor')

\* A faulty end of the frame: the grid is stored and the viewport advanced
\* once any row worker has finished.
UpdateEndEarly ==
  /\ pc = "rows"
  /\ joined # {}
  /\ vals' = values
  /\ Advance
  /\ values' = NoBuffer(values)
  /\ joined' = {}
  /\ pc' = "idle"
  /\ frames' = frames + 1
  /\ UNCHANGED paused

\* for_each has returned: self.vals = values, then the recurrence.
UpdateEnd ==
  /\ pc = "rows"
  /\ joined = DOMAIN values
  /\ vals' = values
  /\ Advance
  /\ values' = NoBuffer(values)
  /\ joined' = {}
  /\ pc' = "idle"
  /\ frames' = frames + 1
  /\ UNCHANGED paused

Next ==
  \/ KeySpace
  \/ UpdatePaused
  \/ UpdateBegin
  \/ \E im \in DOMAIN values : RowWorker(im)
  \/ UpdateEnd

Spec == Init /\ [][Next]_vars

SpecExact == InitExact /\ [][Next]_vars


(***************************************************************************)
(* Properties.                                                             *)
(***************************************************************************)
Cells == Rows \X Cols

InRange(g) == \A q \in Cells : g[q[1]][q[2]] \in 0..ITERATIONS

\* C1: Every cell of vals holds a value in 0..ITERATIONS, in every reachable
\* state: the parallel update adds each count into a freshly zeroed buffer
\* (every cell of the buffer is in range too, whichever rows have finished),
\* and the grid the sequential update would leave from the same state is in
\* range as well.
C1_GridInRange ==
  /\ InRange(vals)
  /\ InRange(values)
  /\ (pc = "idle" /\ ~paused => InRange(SeqGrid(View, vals)))

\* A stored grid with a cell at the cap and a cell that escaped earlier.
C1_Witness ==
  /\ pc = "idle"
  /\ frames >= 2
  /\ \E q \in Cells : vals[q[1]][q[2]] = ITERATIONS
  /\ \E q \in Cells : vals[q[1]][q[2]] \in 1..(ITERATIONS - 1)

\* C2: A step taken while paused changes no field of the viewport, nor zoom,
\* scalar, step_factor, nor the grid (no frame is started either); the update
\* itself leaves paused as it is: only the space key changes it.
C2_PausedUpdateIsNoOp ==
  [][/\ paused => UNCHANGED <<vals, viewport, zoom, scalar, step_factor,
                               values, joined, pc, frames>>
     /\ UpdatePaused => UNCHANGED vars]_vars

\* Paused after some frames: the fields are no longer the initial ones.
C2_Witness == paused /\ pc = "idle" /\ frames >= 3 /\ vals # ZeroGrid

Zero(x) == IntLike(x, 0)

\* C5: In every reachable state re_min < re_max, im_min < im_max, re_scale
\* and im_scale are strictly positive, and the divisors of the next advance,
\* re_max - re_min - 2 * re_zoom and im_max - im_min - 2 * im_zoom, are
\* strictly positive.
C5_ViewportWellFormed ==
  /\ Lt(re_min, re_max)
  /\ Lt(im_min, im_max)
  /\ Gt(re_scale, Zero(re_scale))
  /\ Gt(im_scale, Zero(im_scale))
  /\ Gt(Sub(Sub(re_max, re_min), Mul(IntLike(zoom, 2), zoom)), Zero(zoom))
  /\ Gt(Sub(Sub(im_max, im_min), Mul(IntLike(zoom, 2), ImZoom(zoom))), Zero(zoom))

\* So deep that adding zoom no longer moves re_min or im_min.
C5_Witness ==
  /\ frames > 0
  /\ Add(re_min, zoom) = re_min
  /\ Add(im_min, ImZoom(zoom)) = im_min

\* C7: scalar starts at 2.0; no step increases it, and no step taken while
\* paused changes it; step_factor is strictly positive in every state, also
\* once scalar is at or below 0.000005 and the ladder keeps the last step.
C7_ScalarNonIncreasing ==
  /\ scalar = IntLike(scalar, 2)
  /\ [](Gt(step_factor, Zero(step_factor)))
  /\ [][Le(scalar', scalar) /\ (paused => scalar' = scalar)]_vars

\* Below the lowest threshold of the ladder, after a frame that kept the step.
C7_Witness ==
  /\ frames > 0
  /\ ~Gt(scalar, Lit(scalar, 5, 1000000))
  /\ ~Gt(Add(scalar, step_factor), Lit(scalar, 5, 1000000))


\* C3: In whichever order the row workers finish, the buffer at the join is,
\* cell for cell, the grid the sequential evaluation computes from the same
\* viewport; before the join, a row whose worker has not finished is still
\* zero (no worker writes into another row).
C3_ParallelIsSequential ==
  pc = "rows" =>
    /\ \A im \in Rows \ joined : values[im] = ZeroGrid[im]
    /\ joined = Rows => values = SeqGrid(View, vals)

\* All rows have joined, on a grid whose rows hold different counts.
C3_Witness ==
  /\ pc = "rows"
  /\ joined = Rows
  /\ \E im \in Rows : \E a1, a2 \in Cols : values[im][a1] # values[im][a2]
  /\ \E a \in Cols : \E im1, im2 \in Rows : values[im1][a] # values[im2][a]

\* The grid of viewport v, row by row.
GridOf(v) == [im \in Rows |-> ParRow(v, im, ZeroGrid[im])]

\* C4: A step changes a field of the viewport only when every row worker has
\* joined, and that step stores the buffer, which is the grid of the viewport
\* as it is before the step; while row workers run, and when a frame starts,
\* the viewport is not changed.
C4_GridOfPreAdvanceViewport ==
  [][/\ viewport' # viewport =>
          /\ pc = "rows"
          /\ joined = Rows
          /\ vals' = values
          /\ values = GridOf(View)
     /\ pc' = "rows" => viewport' = viewport]_vars

\* A frame has ended: a grid is stored and the viewport has moved on.
C4_Witness == pc = "idle" /\ frames >= 2 /\ vals # ZeroGrid /\ re_min # RE1

\* One pixel of the initial window in plane units: 1 / GRAPH_SCALE.
Epsilon(x) == Div(IntLike(x, 1), IntLike(x, GRAPH_SCALE))

\* C6: Once the width re_max - re_min is below Epsilon, no step changes the
\* viewport.
C6_FreezeBelowEpsilon ==
  [][Lt(Sub(re_max, re_min), Epsilon(re_min)) => viewport' = viewport]_vars

\* x rounded to the nearest integer, halves away from zero (f64::round).
RoundI16(x) ==
  FTrunc(FAdd(x, [FDiv(FInt(F64, 1), FInt(F64, 2)) EXCEPT !.s = x.s]))

\* The number of columns and of rows of a grid, from its last indices.
Width(g) ==
  LET row == g[CHOOSE b \in DOMAIN g : TRUE]
  IN 1 + CHOOSE a \in DOMAIN row : \A a2 \in DOMAIN row : a2 <= a

Height(g) == 1 + CHOOSE b \in DOMAIN g : \A b2 \in DOMAIN g : b2 <= b

\* C9: vals has DOMAIN columns and RANGE rows, where DOMAIN and RANGE are the
\* differences of the rounded products (anchor +- radius) * GRAPH_SCALE.
C9_DimensionsByRounding ==
  /\ Width(vals) = RoundI16(FMul(RE2, FInt(F64, GRAPH_SCALE)))
                     - RoundI16(FMul(RE1, FInt(F64, GRAPH_SCALE)))
  /\ Height(vals) = RoundI16(FMul(IM2, FInt(F64, GRAPH_SCALE)))
                      - RoundI16(FMul(IM1, FInt(F64, GRAPH_SCALE)))


\* The reference escape time of c: the least n >= 1 whose n-th iterate z_n of
\* z <- z * z + c from z_0 = 0 has |z_n|^2 >= 4, or ITERATIONS if there is no
\* such n up to ITERATIONS.  The search carries <<n, z_(n-1)>>.
EscapeTime(c) ==
  LET Search[t \in Nat \X (Int \X Int)] ==
        LET zn == CAdd(CMul(t[2], t[2]), c)
        IN IF NormSqr(zn) >= 4 * ONE THEN t[1]
           ELSE IF t[1] >= ITERATIONS THEN ITERATIONS
           ELSE Search[<<t[1] + 1, zn>>]
  IN Search[<<1, <<0, 0>>>>]

\* C8: Every cell a finished row worker has stored holds the escape time of
\* its point c; in particular ITERATIONS for c = (0, 0) and for c = (-1, 0),
\* and 1 for every c with |c|^2 >= 4.
C8_CountIsEscapeTime ==
  pc = "rows" =>
    \A im \in joined : \A a \in Cols :
      LET c == PointOf(View, a, im)
      IN /\ values[im][a] = EscapeTime(c)
         /\ c = <<0, 0>> => values[im][a] = ITERATIONS
         /\ c = <<-ONE, 0>> => values[im][a] = ITERATIONS
         /\ NormSqr(c) >= 4 * ONE => values[im][a] = 1

\* The first cell is the point (-1, 0) and its row is stored; another stored
\* cell escaped at once.
C8_Witness ==
  /\ pc = "rows"
  /\ joined = Rows
  /\ PointOf(View, 0, 0) = <<-ONE, 0>>
  /\ values[0][0] = ITERATIONS
  /\ \E q \in Cells : values[q[1]][q[2]] = 1

\* C10: On exact numbers, re_scale * (re_max - re_min) = 4 * GRAPH_SCALE and
\* im_scale * (im_max - im_min) = 2 * GRAPH_SCALE in every reachable state,
\* and no step changes re_min + re_max or im_min + im_max.
C10_ScaleTracksWindow ==
  /\ [](/\ Mul(re_scale, Sub(re_max, re_min)) = IntLike(re_scale, 4 * GRAPH_SCALE)
        /\ Mul(im_scale, Sub(im_max, im_min)) = IntLike(im_scale, 2 * GRAPH_SCALE))
  /\ [][/\ Add(re_min', re_max') = Add(re_min, re_max)
        /\ Add(im_min', im_max') = Add(im_min, im_max)]_vars

\* Exact numbers, several advances made.
C10_Witness == IsQ(re_scale) /\ frames >= 3 /\ Gt(re_scale, IntLike(re_scale, GRAPH_SCALE))

=============================================================================
